---- MODULE Spec2Model ----
(***************************************************************************)
(* URLtracker: the link/visit store and the four request handlers of       *)
(* server.js (create, list, stats, redirect) over one Redis connection.    *)
(*                                                                         *)
(* Strings are sequences of one-character strings, so that prefix tests,   *)
(* lowercasing and substring search are computed and not assumed.  Instants*)
(* are milliseconds counted from 2024-01-01T00:00:00.000Z.                 *)
(***************************************************************************)
EXTENDS Integers, Sequences, FiniteSets, TLC

VARIABLES
    links,      \* Redis hashes  link:<id>      (id -> hash)
    linksSet,   \* Redis set     links
    visits,     \* Redis lists   visits:<id>    (id -> list of serialised visits)
    reqs,       \* the requests being served, one per slot, with their position
    batch,      \* slot whose second pipelined command is next on the connection, or 0
    last,       \* the request answered by the step just taken, with its response
    writes,     \* history: per id, how often Create wrote the link hash
    answered,   \* history: per id, how many redirect requests were answered 302
    failures    \* history: how many storage commands were rejected

vars == <<links, linksSet, visits, reqs, batch, last, writes, answered, failures>>

----------------------------------------------------------------------------
(* Bounds of the model.                                                     *)

MaxSlots == 2
MaxCreates == 2
MaxVisits == 2
MaxReaders == 1
MaxFailures == 1

Slots == 1..MaxSlots

----------------------------------------------------------------------------
(* Strings.                                                                 *)

Upper == <<"A","B","C","D","E","F","G","H","I","J","K","L","M",
           "N","O","P","Q","R","S","T","U","V","W","X","Y","Z">>
Lower == <<"a","b","c","d","e","f","g","h","i","j","k","l","m",
           "n","o","p","q","r","s","t","u","v","w","x","y","z">>

\* (variant: the text is matched as it came, without lowercasing)
toLowerCaseOmitted(s) == s

\* One character of String.prototype.toLowerCase.
LowerChar(c) ==
    IF \E i \in 1..Len(Upper) : Upper[i] = c
    THEN Lower[CHOOSE i \in 1..Len(Upper) : Upper[i] = c]
    ELSE c

toLowerCase(s) == [i \in 1..Len(s) |-> LowerChar(s[i])]

\* String.prototype.startsWith
startsWith(s, p) == Len(s) >= Len(p) /\ SubSeq(s, 1, Len(p)) = p

\* s contains p as a substring (an unanchored literal in a RegExp test)
Contains(s, p) ==
    \E i \in 1..(Len(s) - Len(p) + 1) : SubSeq(s, i, i + Len(p) - 1) = p

\* position of the first occurrence of character c in s, 0 when there is none
IndexOf(s, c) ==
    IF \E i \in 1..Len(s) : s[i] = c
    THEN CHOOSE i \in 1..Len(s) : s[i] = c /\ \A j \in 1..(i - 1) : s[j] # c
    ELSE 0

----------------------------------------------------------------------------
(* Configuration (lines 14-18, 32).                                         *)

BASE_URL == <<"h","t","t","p",":","/","/","l","o">>

ApiPrefix == <<"/","a","p","i">>

\* The identifiers shortid.generate() may return: strings over its 64-character
\* alphabet (digits, letters, _ and -).  The generator is a library call that
\* takes no argument and is not told which identifiers the store holds.
Ids == { <<"k","7">>, <<"a","p","i","Z">> }

\* The identifiers requests may name: those above and one never generated.
PathIds == Ids \cup { <<"a","p","x">> }

\* The request inputs the model draws from.
Urls == { <<"h","t","t","p",":","/","/","a">>,
          <<"H","T","T","P","S",":","/","/","b">>,
          <<"f","t","p",":","/","/","a">>,
          <<"a",".","b">>,
          <<"u","n","d","e","f","i","n","e","d">> }   \* String(undefined)

UserAgents == { << >>, <<"X","-","i","P","a","d">> }

\* user-agent strings for the classifier alone: with each token, in either
\* case, with a token cut short or split, and with none; req.get gives
\* undefined for a missing header, which line 144 turns into ''
DeviceUserAgents ==
    { << >>,
      <<"M","O","B","I","L","E","-","X">>,
      <<"(","i","P","h","o","n","e",";">>,
      <<"W","i","n","d","o","w","s"," ","N","T">>,
      <<"A","n","d","r","o","i","d"," ","9">>,
      <<"X","-","i","P","a","d">>,
      <<"i","P","o","d">>,
      <<"m","o","b","i","l">>,
      <<"i","p","a"," ","d">>,
      <<"a","N","d","R","o","I","d">>,
      <<"M","o","b","i","-","l","e">>,
      <<"p","h","o","n","e">> }

----------------------------------------------------------------------------
(* Time: Date, toISOString, new Date(string).  new Date() reads the wall    *)
(* clock, which the program does not control: each reading is an instant   *)
(* drawn from Instants.                                                     *)

DayMs == 24 * 60 * 60 * 1000
MinuteMs == 60 * 1000

\* 2024-01-DDTHH:MM:00.000Z as milliseconds from 2024-01-01T00:00Z
Jan(day, hh, mm) == (day - 1) * DayMs + (hh * 60 + mm) * MinuteMs

\* the clock readings of new Date() at line 53 and at line 146
Instants == { Jan(1, 10, 0), Jan(5, 23, 59) }
VisitInstants == { Jan(5, 23, 59) }

\* Date.prototype.toISOString: the date part and the time-of-day part
toISOString(t) == [date |-> t \div DayMs, time |-> t % DayMs]

\* new Date(isoString) of a full timestamp, as milliseconds
DateOfISO(iso) == iso.date * DayMs + iso.time

\* A query parameter is absent, a calendar date "2024-01-DD" or other text.
\* req.query.x ? new Date(req.query.x) : null     (lines 104-105)
\* A date-only string is parsed as UTC midnight; other text gives Invalid Date.
QueryDate(q) ==
    CASE q.k = "absent" -> [k |-> "null", ms |-> 0]
      [] q.k = "date"   -> [k |-> "ms", ms |-> (q.day - 1) * DayMs]
      [] OTHER          -> [k |-> "nan", ms |-> 0]

NoParam == [k |-> "absent"]
DateParam(d) == [k |-> "date", day |-> d]
TextParam == [k |-> "text"]

----------------------------------------------------------------------------
(* Pure helpers of server.js.                                               *)

MobileTokens == { <<"m","o","b","i","l","e">>, <<"a","n","d","r","o","i","d">>,
                  <<"i","p","h","o","n","e">>, <<"i","p","a","d">>,
                  <<"i","p","o","d">> }

\* lines 34-38
detectDeviceType(ua) ==
    LET value == toLowerCase(ua)
    IN  IF \E t \in MobileTokens : Contains(value, t) THEN "mobile" ELSE "desktop"

SpecialSchemes == { <<"h","t","t","p",":">>, <<"h","t","t","p","s",":">>,
                    <<"f","t","p",":">> }

\* new URL(url), line 44: throws unless the text starts with a scheme of letters
\* followed by ':' and, for a special scheme, names a host.  protocol is the
\* lowercased scheme with its colon.
ParseURL(url) ==
    LET i      == IndexOf(url, ":")
        scheme == toLowerCase(SubSeq(url, 1, i))
        rest   == SubSeq(url, i + 1, Len(url))
        host   == SelectSeq(rest, LAMBDA c : c # "/")
        ok     == /\ i > 1
                  /\ \A j \in 1..(i - 1) : \E n \in 1..Len(Lower) : Lower[n] = scheme[j]
                  /\ (scheme \in SpecialSchemes => Len(host) > 0)
    IN  [ok |-> ok, protocol |-> IF ok THEN scheme ELSE << >>]

\* (variant: every scheme the URL parser knows is let through)
AllowedProtocolsAnyKnown == SpecialSchemes

\* line 45
AllowedProtocols == { <<"h","t","t","p",":">>, <<"h","t","t","p","s",":">> }

\* JSON.stringify(visit) and the try { JSON.parse(entry) } catch { null } of
\* lines 108-114: a list entry is text that either parses to a value or throws.
JSONstringify(v) == [wellFormed |-> TRUE, value |-> v]

Parses(entry) == entry.wellFormed
JSONparse(entry) == entry.value

\* a stored entry whose text was damaged so that JSON.parse throws on it
Corrupted(entry) == [entry EXCEPT !.wellFormed = FALSE]

----------------------------------------------------------------------------
(* The Redis commands the handlers issue, as functions of the key's value.  *)

\* HGETALL of a key that does not exist
EmptyHash == << >>

Has(h, f) == DOMAIN h # {} /\ f \in DOMAIN h

\* h.f, undefined when the field is missing
Undefined == << >>
Field(h, f) == IF Has(h, f) THEN h[f] ELSE Undefined

\* HSET key field value [field value ...]
hSet(h, fields) ==
    [f \in DOMAIN h \cup DOMAIN fields |->
        IF f \in DOMAIN fields THEN fields[f] ELSE h[f]]

\* (variant: the field is written with n instead of being incremented)
hIncrByOverwrites(h, f, n) ==
    [g \in DOMAIN h \cup {f} |-> IF g = f THEN n ELSE h[g]]

\* HINCRBY key field n
hIncrBy(h, f, n) ==
    [g \in DOMAIN h \cup {f} |->
        IF g = f THEN (IF Has(h, f) THEN h[f] ELSE 0) + n ELSE h[g]]

\* (variant: LPUSH, the element is put in front)
rPushInFront(list, e) == <<e>> \o list

\* RPUSH key element
rPush(list, e) == Append(list, e)

\* SADD key member
sAdd(set, m) == set \cup {m}

\* HGETALL link:<id>
hGetAll(id) == IF id \in DOMAIN links THEN links[id] ELSE EmptyHash

\* (variant: only !link is tested, and HGETALL's empty object is truthy)
NoIdTestsObjectOnly(h) == FALSE

\* !link || !link.id        (lines 79, 99, 141)
NoId(h) == IF Has(h, "id") THEN h["id"] = << >> ELSE TRUE

\* data.visitCount || 0, as a number        (lines 84, 128)
VisitCountOf(h) == IF Has(h, "visitCount") THEN h["visitCount"] ELSE 0

\* SMEMBERS returns the members in an order the store chooses.
Orders(set) ==
    { p \in [1..Cardinality(set) -> set] :
        \A i, j \in 1..Cardinality(set) : i # j => p[i] # p[j] }

----------------------------------------------------------------------------
(* Array.prototype.sort((a, b) => key(b) - key(a)): stable, descending.     *)

Range(seq) == { seq[i] : i \in 1..Len(seq) }

\* key is the comparator's key as a function on the elements
RECURSIVE InsertDesc(_, _, _)
InsertDesc(x, sorted, key) ==
    IF sorted = << >> THEN <<x>>
    ELSE IF key[Head(sorted)] >= key[x]
         THEN <<Head(sorted)>> \o InsertDesc(x, Tail(sorted), key)
         ELSE <<x>> \o sorted

\* (variant: the sort is left out, the elements stay in stored order)
SortSkipped(seq, key) == seq

RECURSIVE SortDesc(_, _)
SortDesc(seq, key) ==
    IF seq = << >> THEN << >>
    ELSE InsertDesc(seq[Len(seq)], SortDesc(SubSeq(seq, 1, Len(seq) - 1), key), key)

----------------------------------------------------------------------------
(* Stats: parse, range filter and sort of the visit log (lines 104-122).    *)

\* ts < start, ts > bound on Date values: false when the bound is Invalid Date
Before(ts, d) == d.k = "ms" /\ ts < d.ms
After(ts, d) == d.k = "ms" /\ ts > d.ms

\* (variant: the end date itself is the upper bound)
PlusDayOmitted(d) == d

\* new Date(end.getTime() + 24 * 60 * 60 * 1000)
PlusDay(d) == IF d.k = "ms" THEN [k |-> "ms", ms |-> d.ms + DayMs] ELSE d

\* the filter callback of lines 116-121
InRange(visit, start, end) ==
    LET ts == DateOfISO(visit.timestamp)
    IN  IF start.k # "null" /\ Before(ts, start) THEN FALSE
        ELSE IF end.k # "null" /\ After(ts, PlusDay(end)) THEN FALSE
        ELSE TRUE

VisitTime(visit) == DateOfISO(visit.timestamp)

\* (variant: no catch, reading stops at the first entry that does not parse)
RECURSIVE ParseUntilCorrupt(_)
ParseUntilCorrupt(entries) ==
    IF entries = << >> \/ ~Parses(Head(entries)) THEN << >>
    ELSE <<JSONparse(Head(entries))>> \o ParseUntilCorrupt(Tail(entries))

\* lines 107-115: map(JSON.parse or null).filter(Boolean)
RECURSIVE ParseAll(_)
ParseAll(entries) ==
    IF entries = << >> THEN << >>
    ELSE (IF Parses(Head(entries)) THEN <<JSONparse(Head(entries))>> ELSE << >>)
         \o ParseAll(Tail(entries))

parsedVisits(entries, qstart, qend) ==
    LET start == QueryDate(qstart)
        end   == QueryDate(qend)
        kept  == SelectSeq(ParseAll(entries), LAMBDA v : InRange(v, start, end))
    IN  SortDesc(kept, [v \in Range(kept) |-> VisitTime(v)])

\* (variant: visitCount is taken from the number of visits that are returned)
StatsBodyCountsReturned(link, id, entries, qstart, qend) ==
    [id          |-> Field(link, "id"),
     originalUrl |-> Field(link, "originalUrl"),
     createdAt   |-> Field(link, "createdAt"),
     visitCount  |-> Len(parsedVisits(entries, qstart, qend)),
     shortUrl    |-> IF Has(link, "shortUrl") THEN link["shortUrl"]
                     ELSE BASE_URL \o <<"/">> \o id,
     visits      |-> parsedVisits(entries, qstart, qend)]

\* the body of lines 124-131
StatsBody(link, id, entries, qstart, qend) ==
    [id          |-> Field(link, "id"),
     originalUrl |-> Field(link, "originalUrl"),
     createdAt   |-> Field(link, "createdAt"),
     visitCount  |-> VisitCountOf(link),
     shortUrl    |-> IF Has(link, "shortUrl") THEN link["shortUrl"]
                     ELSE BASE_URL \o <<"/">> \o id,
     visits      |-> parsedVisits(entries, qstart, qend)]

----------------------------------------------------------------------------
(* List: lines 76-90.                                                       *)

CreatedTime(l) == DateOfISO(l.createdAt)

\* the callback of lines 77-86, null results dropped by filter(Boolean)
RECURSIVE ReadLinks(_, _)
ReadLinks(ids, hashes) ==
    IF ids = << >> THEN << >>
    ELSE LET id   == Head(ids)
             data == hashes[id]
         IN  (IF NoId(data) THEN << >>
              ELSE << [id          |-> Field(data, "id"),
                       originalUrl |-> Field(data, "originalUrl"),
                       createdAt   |-> Field(data, "createdAt"),
                       visitCount  |-> VisitCountOf(data),
                       shortUrl    |-> IF Has(data, "shortUrl") THEN data["shortUrl"]
                                       ELSE BASE_URL \o <<"/">> \o id] >>)
             \o ReadLinks(Tail(ids), hashes)

ListBody(ids, hashes) ==
    LET read == ReadLinks(ids, hashes)
    IN  SortDesc(read, [l \in Range(read) |-> CreatedTime(l)])

----------------------------------------------------------------------------
(* The pure helpers tabulated over the inputs of the model.                 *)

ParsedUrl == [u \in Urls |-> ParseURL(u)]

DeviceTypeOf == [ua \in UserAgents \cup DeviceUserAgents |-> detectDeviceType(ua)]

\* req.path.startsWith('/api'), line 136
ApiPaths == { id \in PathIds : startsWith(<<"/">> \o id, ApiPrefix) }

----------------------------------------------------------------------------
(* Requests.                                                                *)

Idle == [kind |-> "idle", pc |-> "idle", resp |-> [status |-> "none"]]
Pending == [status |-> "pending"]

Free(s) == reqs[s].kind = "idle"

\* a new request takes the lowest free slot
Accepts(s) == Free(s) /\ \A t \in Slots : t < s => ~Free(t)

RECURSIVE SumOver(_, _)
SumOver(f, S) ==
    IF S = {} THEN 0
    ELSE LET x == CHOOSE y \in S : TRUE IN f[x] + SumOver(f, S \ {x})

Reading(s) == reqs[s].kind \in {"list", "stats"}

\* another read request may be taken up
ReaderFree == Cardinality({ s \in Slots : Reading(s) }) < MaxReaders

Recording(s) ==
    reqs[s].kind = "redirect" /\ reqs[s].pc \in {"gotLink", "rPush", "rPushAfterFail"}

\* visits stored or still to be stored by the requests in flight
VisitsDue ==
    SumOver([i \in PathIds |-> Len(visits[i])], PathIds)
        + Cardinality({ s \in Slots : Recording(s) })

\* the response is sent and the request leaves its slot
Done(s, r) ==
    /\ last' = [reqs[s] EXCEPT !.pc = "done", !.resp = r]
    /\ reqs' = [reqs EXCEPT ![s] = Idle]

Init ==
    /\ links = [i \in PathIds |-> EmptyHash]
    /\ linksSet = {}
    /\ visits = [i \in PathIds |-> << >>]
    /\ reqs = [s \in Slots |-> Idle]
    /\ batch = 0
    /\ last = Idle
    /\ failures = 0
    /\ writes = [i \in Ids |-> 0]
    /\ answered = [i \in PathIds |-> 0]

----------------------------------------------------------------------------
(* POST /api/links, lines 41-71.                                            *)

\* the record written by hSet and returned as JSON (lines 55-61, 64-70)
LinkRecord(id, url, createdAt) ==
    [id          |-> id,
     originalUrl |-> url,
     createdAt   |-> createdAt,
     visitCount  |-> 0,
     shortUrl    |-> BASE_URL \o <<"/">> \o id]

\* shortid.generate(), line 52: any identifier of its alphabet; the call is
\* not given the identifiers in use and line 52 does not look the result up
generate == Ids

\* lines 42-50: the request is refused
CreateRefuse(s, url) ==
    /\ Accepts(s)
    /\ LET parsed == ParsedUrl[url]
       IN  /\ ~parsed.ok \/ parsed.protocol \notin AllowedProtocols
           /\ last' = [kind |-> "create", pc |-> "done", url |-> url,
                       resp |-> [status |-> "400",
                                 body |-> IF parsed.ok
                                          THEN "Only http(s) URLs are allowed."
                                          ELSE "Invalid URL provided."]]
    /\ UNCHANGED <<links, linksSet, visits, reqs, batch, writes, answered, failures>>

\* (variant: the id is put into the index first, before its record is written)
CreateIndexFirst(s, url) ==
    /\ Accepts(s)
    /\ batch = 0
    /\ SumOver(writes, Ids) < MaxCreates
    /\ ParsedUrl[url].ok
    /\ ParsedUrl[url].protocol \in AllowedProtocols
    /\ \E id \in generate, t \in Instants :
        LET createdAt == toISOString(t)
        IN  /\ linksSet' = sAdd(linksSet, id)
            /\ writes' = [writes EXCEPT ![id] = @ + 1]
            /\ reqs' = [reqs EXCEPT ![s] =
                   [kind |-> "create", pc |-> "sAdd", url |-> url, id |-> id,
                    createdAt |-> createdAt, resp |-> Pending]]
    /\ last' = Idle
    /\ UNCHANGED <<links, visits, batch, answered, failures>>

\* lines 42-61: the URL passes, an id is generated and the hash is written
CreateHSet(s, url) ==
    /\ Accepts(s)
    /\ batch = 0
    /\ SumOver(writes, Ids) < MaxCreates
    /\ ParsedUrl[url].ok
    /\ ParsedUrl[url].protocol \in AllowedProtocols
    /\ \E id \in generate, t \in Instants :
        LET createdAt == toISOString(t)    \* new Date().toISOString(), line 53
        IN  /\ links' = [links EXCEPT ![id] = hSet(@, LinkRecord(id, url, createdAt))]
            /\ writes' = [writes EXCEPT ![id] = @ + 1]
            /\ reqs' = [reqs EXCEPT ![s] =
                   [kind |-> "create", pc |-> "sAdd", url |-> url, id |-> id,
                    createdAt |-> createdAt, resp |-> Pending]]
    /\ last' = Idle
    /\ UNCHANGED <<linksSet, visits, batch, answered, failures>>

\* lines 62-70: the id joins the index and the link is returned
CreateSAdd(s) ==
    /\ reqs[s].kind = "create" /\ reqs[s].pc = "sAdd"
    /\ batch = 0
    /\ linksSet' = sAdd(linksSet, reqs[s].id)
    /\ Done(s, [status |-> "200",
                body |-> LinkRecord(reqs[s].id, reqs[s].url, reqs[s].createdAt)])
    /\ UNCHANGED <<links, visits, batch, writes, answered, failures>>

----------------------------------------------------------------------------
(* GET /api/links, lines 74-92.                                             *)

\* line 75
ListSMembers(s) ==
    /\ Accepts(s)
    /\ ReaderFree
    /\ batch = 0
    /\ \E ids \in Orders(linksSet) :
        reqs' = [reqs EXCEPT ![s] =
            [kind |-> "list", pc |-> "hGetAll", ids |-> ids, resp |-> Pending]]
    /\ last' = Idle
    /\ UNCHANGED <<links, linksSet, visits, batch, writes, answered, failures>>

\* lines 76-91: the hGetAll commands are pipelined together
ListRespond(s) ==
    /\ reqs[s].kind = "list" /\ reqs[s].pc = "hGetAll"
    /\ batch = 0
    /\ Done(s, [status |-> "200", body |-> ListBody(reqs[s].ids, links)])
    /\ UNCHANGED <<links, linksSet, visits, batch, writes, answered, failures>>

----------------------------------------------------------------------------
(* GET /api/links/:id/stats, lines 95-132.                                  *)

\* lines 96-98
StatsHGetAll(s, id, qstart, qend) ==
    /\ Accepts(s)
    /\ ReaderFree
    /\ batch = 0
    /\ reqs' = [reqs EXCEPT ![s] =
           [kind |-> "stats", pc |-> "gotLink", id |-> id, start |-> qstart,
            end |-> qend, link |-> hGetAll(id), resp |-> Pending]]
    /\ last' = Idle
    /\ UNCHANGED <<links, linksSet, visits, batch, writes, answered, failures>>

\* (variant: a link that is not found is answered with empty statistics)
StatsNotFoundAnswersEmpty(s) ==
    /\ reqs[s].kind = "stats" /\ reqs[s].pc = "gotLink"
    /\ NoId(reqs[s].link)
    /\ Done(s, [status |-> "200", log |-> << >>,
                body |-> StatsBody(reqs[s].link, reqs[s].id, << >>,
                                   reqs[s].start, reqs[s].end)])
    /\ UNCHANGED <<links, linksSet, visits, batch, writes, answered, failures>>

\* line 99
StatsNotFound(s) ==
    /\ reqs[s].kind = "stats" /\ reqs[s].pc = "gotLink"
    /\ NoId(reqs[s].link)
    /\ Done(s, [status |-> "404", body |-> "Link not found."])
    /\ UNCHANGED <<links, linksSet, visits, batch, writes, answered, failures>>

\* lines 101-131
StatsRespond(s) ==
    /\ reqs[s].kind = "stats" /\ reqs[s].pc = "gotLink"
    /\ ~NoId(reqs[s].link)
    /\ batch = 0
    /\ LET r == reqs[s]
       IN  Done(s, [status |-> "200",
                    log    |-> visits[r.id],
                    body   |-> StatsBody(r.link, r.id, visits[r.id], r.start, r.end)])
    /\ UNCHANGED <<links, linksSet, visits, batch, writes, answered, failures>>

----------------------------------------------------------------------------
(* GET /:id, lines 135-157.                                                 *)

\* line 136
RedirectSkip(s, id, ua) ==
    /\ Accepts(s)
    /\ id \in ApiPaths
    /\ last' = [kind |-> "redirect", pc |-> "done", id |-> id, userAgent |-> ua,
                created |-> id \in linksSet, link |-> EmptyHash,
                resp |-> [status |-> "next"]]
    /\ UNCHANGED <<links, linksSet, visits, reqs, batch, writes, answered, failures>>

\* lines 136-140
RedirectHGetAll(s, id, ua) ==
    /\ Accepts(s)
    /\ id \notin ApiPaths
    /\ batch = 0
    /\ VisitsDue < MaxVisits
    /\ reqs' = [reqs EXCEPT ![s] =
           [kind |-> "redirect", pc |-> "gotLink", id |-> id, userAgent |-> ua,
            created |-> id \in linksSet, link |-> hGetAll(id), resp |-> Pending]]
    /\ last' = Idle
    /\ UNCHANGED <<links, linksSet, visits, batch, writes, answered, failures>>

\* line 141
RedirectNotFound(s) ==
    /\ reqs[s].kind = "redirect" /\ reqs[s].pc = "gotLink"
    /\ NoId(reqs[s].link)
    /\ Done(s, [status |-> "next"])
    /\ UNCHANGED <<links, linksSet, visits, batch, writes, answered, failures>>

\* lines 143-149
Visit(ua, t) ==
    [timestamp  |-> toISOString(t),
     userAgent  |-> ua,
     deviceType |-> DeviceTypeOf[ua]]

\* lines 143-152: the visit is built, both commands are sent, HINCRBY is applied
RedirectHIncrBy(s) ==
    /\ reqs[s].kind = "redirect" /\ reqs[s].pc = "gotLink"
    /\ ~NoId(reqs[s].link)
    /\ batch = 0
    /\ links' = [links EXCEPT ![reqs[s].id] = hIncrBy(@, "visitCount", 1)]
    /\ batch' = s
    /\ \E t \in VisitInstants :
        reqs' = [reqs EXCEPT ![s] =
           [kind |-> "redirect", pc |-> "rPush", id |-> reqs[s].id,
            userAgent |-> reqs[s].userAgent, created |-> reqs[s].created,
            link |-> reqs[s].link, visit |-> Visit(reqs[s].userAgent, t),
            resp |-> Pending]]
    /\ last' = Idle
    /\ UNCHANGED <<linksSet, visits, writes, answered, failures>>

\* lines 153-156: RPUSH is applied and the redirect is sent
RedirectRPush(s) ==
    /\ reqs[s].kind = "redirect" /\ reqs[s].pc = "rPush"
    /\ batch = s
    /\ visits' = [visits EXCEPT ![reqs[s].id] = rPush(@, JSONstringify(reqs[s].visit))]
    /\ batch' = 0
    /\ answered' = [answered EXCEPT ![reqs[s].id] = @ + 1]
    /\ Done(s, [status |-> "302", location |-> Field(reqs[s].link, "originalUrl")])
    /\ UNCHANGED <<links, linksSet, writes, failures>>

----------------------------------------------------------------------------

QueryParams == { NoParam, DateParam(5) }

Next ==
    \/ \E s \in Slots, url \in Urls : CreateRefuse(s, url)
    \/ \E s \in Slots, url \in Urls : CreateHSet(s, url)
    \/ \E s \in Slots : CreateSAdd(s)
    \/ \E s \in Slots : ListSMembers(s)
    \/ \E s \in Slots : ListRespond(s)
    \/ \E s \in Slots, id \in PathIds, qs, qe \in QueryParams : StatsHGetAll(s, id, qs, qe)
    \/ \E s \in Slots : StatsNotFound(s)
    \/ \E s \in Slots : StatsRespond(s)
    \/ \E s \in Slots, id \in PathIds, ua \in UserAgents : RedirectSkip(s, id, ua)
    \/ \E s \in Slots, id \in PathIds, ua \in UserAgents : RedirectHGetAll(s, id, ua)
    \/ \E s \in Slots : RedirectNotFound(s)
    \/ \E s \in Slots : RedirectHIncrBy(s)
    \/ \E s \in Slots : RedirectRPush(s)

Spec == Init /\ [][Next]_vars

----------------------------------------------------------------------------
(* Storage failures.  A command the store or the connection rejects makes   *)
(* its await throw.  No handler has a catch, and the wildcard route of line *)
(* 162 is one only Express 4 accepts, whose router does not look at the     *)
(* promise an async handler returns: the rejection goes unhandled and the   *)
(* request gets no response.                                                *)

Rejected == [status |-> "unanswered"]

FailBudget == failures < MaxFailures

\* line 55: hSet is rejected
CreateHSetFails(s, url) ==
    /\ Accepts(s)
    /\ batch = 0
    /\ FailBudget
    /\ ParsedUrl[url].ok
    /\ ParsedUrl[url].protocol \in AllowedProtocols
    /\ last' = [kind |-> "create", pc |-> "done", url |-> url, resp |-> Rejected]
    /\ failures' = failures + 1
    /\ UNCHANGED <<links, linksSet, visits, reqs, batch, writes, answered>>

\* line 62: sAdd is rejected, after hSet was applied
CreateSAddFails(s) ==
    /\ reqs[s].kind = "create" /\ reqs[s].pc = "sAdd"
    /\ batch = 0
    /\ FailBudget
    /\ Done(s, Rejected)
    /\ failures' = failures + 1
    /\ UNCHANGED <<links, linksSet, visits, batch, writes, answered>>

\* line 75: sMembers is rejected
ListSMembersFails(s) ==
    /\ Accepts(s)
    /\ batch = 0
    /\ FailBudget
    /\ last' = [kind |-> "list", pc |-> "done", ids |-> << >>, resp |-> Rejected]
    /\ failures' = failures + 1
    /\ UNCHANGED <<links, linksSet, visits, reqs, batch, writes, answered>>

\* line 78: one of the hGetAll commands is rejected
ListHGetAllFails(s) ==
    /\ reqs[s].kind = "list" /\ reqs[s].pc = "hGetAll"
    /\ reqs[s].ids # << >>
    /\ batch = 0
    /\ FailBudget
    /\ Done(s, Rejected)
    /\ failures' = failures + 1
    /\ UNCHANGED <<links, linksSet, visits, batch, writes, answered>>

\* line 98: hGetAll is rejected
StatsHGetAllFails(s, id, qstart, qend) ==
    /\ Accepts(s)
    /\ batch = 0
    /\ FailBudget
    /\ last' = [kind |-> "stats", pc |-> "done", id |-> id, start |-> qstart,
                end |-> qend, link |-> EmptyHash, resp |-> Rejected]
    /\ failures' = failures + 1
    /\ UNCHANGED <<links, linksSet, visits, reqs, batch, writes, answered>>

\* line 102: lRange is rejected
StatsLRangeFails(s) ==
    /\ reqs[s].kind = "stats" /\ reqs[s].pc = "gotLink"
    /\ ~NoId(reqs[s].link)
    /\ batch = 0
    /\ FailBudget
    /\ Done(s, Rejected)
    /\ failures' = failures + 1
    /\ UNCHANGED <<links, linksSet, visits, batch, writes, answered>>

\* line 140: hGetAll is rejected
RedirectHGetAllFails(s, id, ua) ==
    /\ Accepts(s)
    /\ id \notin ApiPaths
    /\ batch = 0
    /\ FailBudget
    /\ last' = [kind |-> "redirect", pc |-> "done", id |-> id, userAgent |-> ua,
                created |-> id \in linksSet, link |-> EmptyHash, resp |-> Rejected]
    /\ failures' = failures + 1
    /\ UNCHANGED <<links, linksSet, visits, reqs, batch, writes, answered>>

\* line 152: hIncrBy is rejected; rPush has been sent with it and is still
\* to be applied
RedirectHIncrByFails(s) ==
    /\ reqs[s].kind = "redirect" /\ reqs[s].pc = "gotLink"
    /\ ~NoId(reqs[s].link)
    /\ batch = 0
    /\ FailBudget
    /\ batch' = s
    /\ \E t \in VisitInstants :
        reqs' = [reqs EXCEPT ![s] =
           [kind |-> "redirect", pc |-> "rPushAfterFail", id |-> reqs[s].id,
            userAgent |-> reqs[s].userAgent, created |-> reqs[s].created,
            link |-> reqs[s].link, visit |-> Visit(reqs[s].userAgent, t),
            resp |-> Pending]]
    /\ last' = Idle
    /\ failures' = failures + 1
    /\ UNCHANGED <<links, linksSet, visits, writes, answered>>

\* line 153 after a rejected hIncrBy: rPush is applied, Promise.all has
\* rejected and line 156 is not reached
RedirectRPushAfterFail(s) ==
    /\ reqs[s].kind = "redirect" /\ reqs[s].pc = "rPushAfterFail"
    /\ batch = s
    /\ visits' = [visits EXCEPT ![reqs[s].id] = rPush(@, JSONstringify(reqs[s].visit))]
    /\ batch' = 0
    /\ Done(s, Rejected)
    /\ UNCHANGED <<links, linksSet, writes, answered, failures>>

\* line 153: rPush is rejected; line 156 is not reached
RedirectRPushFails(s) ==
    /\ reqs[s].kind = "redirect" /\ reqs[s].pc \in {"rPush", "rPushAfterFail"}
    /\ batch = s
    /\ FailBudget
    /\ batch' = 0
    /\ Done(s, Rejected)
    /\ failures' = failures + 1
    /\ UNCHANGED <<links, linksSet, visits, writes, answered>>

\* the inputs of the requests served while commands may fail
FailUrls == { <<"h","t","t","p",":","/","/","a">>, <<"f","t","p",":","/","/","a">> }
FailUserAgents == { <<"X","-","i","P","a","d">> }
FailQueryParams == { NoParam }

NextFail ==
    \/ \E s \in Slots, url \in FailUrls : CreateRefuse(s, url)
    \/ \E s \in Slots, url \in FailUrls : CreateHSet(s, url)
    \/ \E s \in Slots : CreateSAdd(s)
    \/ \E s \in Slots : ListSMembers(s)
    \/ \E s \in Slots : ListRespond(s)
    \/ \E s \in Slots, id \in PathIds, qs, qe \in FailQueryParams :
           StatsHGetAll(s, id, qs, qe)
    \/ \E s \in Slots : StatsNotFound(s)
    \/ \E s \in Slots : StatsRespond(s)
    \/ \E s \in Slots, id \in PathIds, ua \in FailUserAgents : RedirectSkip(s, id, ua)
    \/ \E s \in Slots, id \in PathIds, ua \in FailUserAgents : RedirectHGetAll(s, id, ua)
    \/ \E s \in Slots : RedirectNotFound(s)
    \/ \E s \in Slots : RedirectHIncrBy(s)
    \/ \E s \in Slots : RedirectRPush(s)
    \/ \E s \in Slots, url \in FailUrls : CreateHSetFails(s, url)
    \/ \E s \in Slots : CreateSAddFails(s)
    \/ \E s \in Slots : ListSMembersFails(s)
    \/ \E s \in Slots : ListHGetAllFails(s)
    \/ \E s \in Slots, id \in PathIds, qs, qe \in FailQueryParams :
           StatsHGetAllFails(s, id, qs, qe)
    \/ \E s \in Slots : StatsLRangeFails(s)
    \/ \E s \in Slots, id \in PathIds, ua \in FailUserAgents :
           RedirectHGetAllFails(s, id, ua)
    \/ \E s \in Slots : RedirectHIncrByFails(s)
    \/ \E s \in Slots : RedirectRPushAfterFail(s)
    \/ \E s \in Slots : RedirectRPushFails(s)

SpecFail == Init /\ [][NextFail]_vars

----------------------------------------------------------------------------
(* Scheduling.  Without storage failures every command that was sent is     *)
(* applied and answered: a recording past its lookup goes on to HINCRBY and *)
(* RPUSH.                                                                   *)

SpecLive ==
    /\ Spec
    /\ \A s \in Slots : WF_vars(RedirectHIncrBy(s)) /\ WF_vars(RedirectRPush(s))

----------------------------------------------------------------------------
(* The stats query on its own: a store holding one link whose log is any    *)
(* sequence of recorded visits, queried with any start and end.             *)

MaxLog == 3

StatsInstants ==
    { Jan(1, 10, 0), Jan(1, 23, 59), Jan(2, 0, 0), Jan(5, 23, 59),
      Jan(6, 0, 0), Jan(6, 0, 0) + 1, Jan(10, 0, 1) }

StatsId == <<"k","7">>
StatsUrl == <<"h","t","t","p",":","/","/","a">>
StatsUserAgent == << >>

StoredVisit(t) == JSONstringify(Visit(StatsUserAgent, t))

\* what a log may hold: recorded visits, and one whose text was damaged
StoredEntries ==
    { StoredVisit(t) : t \in StatsInstants }
        \cup { Corrupted(StoredVisit(Jan(5, 23, 59))) }

Logs == UNION { [1..n -> StoredEntries] : n \in 0..MaxLog }

InitStats ==
    /\ \E log \in Logs :
        /\ visits = [i \in PathIds |-> IF i = StatsId THEN log ELSE << >>]
        /\ links = [i \in PathIds |->
               IF i = StatsId
               THEN hSet(LinkRecord(StatsId, StatsUrl, toISOString(Jan(1, 10, 0))),
                         [visitCount |-> Len(log)])
               ELSE EmptyHash]
        /\ answered = [i \in PathIds |-> IF i = StatsId THEN Len(log) ELSE 0]
    /\ linksSet = {StatsId}
    /\ reqs = [s \in Slots |-> Idle]
    /\ batch = 0
    /\ last = Idle
    /\ failures = 0
    /\ writes = [i \in Ids |-> IF i = StatsId THEN 1 ELSE 0]

StatsQueryParams == { NoParam, DateParam(2), DateParam(5), TextParam }

NextStats ==
    \/ \E s \in Slots, id \in PathIds, qs, qe \in StatsQueryParams :
           StatsHGetAll(s, id, qs, qe)
    \/ \E s \in Slots : StatsNotFound(s)
    \/ \E s \in Slots : StatsRespond(s)

SpecStats == InitStats /\ [][NextStats]_vars

----------------------------------------------------------------------------
(* The list query on its own: a store left by Creates that completed in the  *)
(* order CreatedOrder, each with a creation time of its own and some visits. *)

\* the ids in the order in which their Creates ran SADD (line 62)
CreatedOrder == << <<"k","7">>, <<"a","p","i","Z">> >>

ListUrl == <<"h","t","t","p",":","/","/","a">>

InitList ==
    /\ \E n \in 0..Len(CreatedOrder),
          t \in [1..Len(CreatedOrder) -> Instants],
          c \in [1..Len(CreatedOrder) -> 0..MaxVisits] :
        LET made == { i \in 1..n : TRUE }
            at(id) == CHOOSE i \in 1..Len(CreatedOrder) : CreatedOrder[i] = id
            isMade(id) == \E i \in made : CreatedOrder[i] = id
        IN  /\ linksSet = { CreatedOrder[i] : i \in made }
            /\ links = [id \in PathIds |->
                   IF isMade(id)
                   THEN hSet(LinkRecord(id, ListUrl, toISOString(t[at(id)])),
                             [visitCount |-> c[at(id)]])
                   ELSE EmptyHash]
            /\ visits = [id \in PathIds |->
                   IF isMade(id)
                   THEN [k \in 1..c[at(id)] |-> StoredVisit(Jan(5, 23, 59))]
                   ELSE << >>]
            /\ answered = [id \in PathIds |-> IF isMade(id) THEN c[at(id)] ELSE 0]
            /\ writes = [id \in Ids |-> IF isMade(id) THEN 1 ELSE 0]
    /\ reqs = [s \in Slots |-> Idle]
    /\ batch = 0
    /\ last = Idle
    /\ failures = 0

NextList ==
    \/ \E s \in Slots : ListSMembers(s)
    \/ \E s \in Slots : ListRespond(s)

SpecList == InitList /\ [][NextList]_vars

----------------------------------------------------------------------------
(* The classifier on its own: redirects to one link from each user agent of *)
(* DeviceUserAgents, each recorded with the device type of lines 34-38.     *)

InitDevice ==
    /\ links = [i \in PathIds |->
           IF i = StatsId
           THEN LinkRecord(StatsId, StatsUrl, toISOString(Jan(1, 10, 0)))
           ELSE EmptyHash]
    /\ linksSet = {StatsId}
    /\ visits = [i \in PathIds |-> << >>]
    /\ reqs = [s \in Slots |-> Idle]
    /\ batch = 0
    /\ last = Idle
    /\ failures = 0
    /\ writes = [i \in Ids |-> IF i = StatsId THEN 1 ELSE 0]
    /\ answered = [i \in PathIds |-> 0]

NextDevice ==
    \/ \E s \in Slots, ua \in DeviceUserAgents : RedirectHGetAll(s, StatsId, ua)
    \/ \E s \in Slots : RedirectHIncrBy(s)
    \/ \E s \in Slots : RedirectRPush(s)

SpecDevice == InitDevice /\ [][NextDevice]_vars

----------------------------------------------------------------------------
(* Properties.                                                              *)

StoreUnchanged == UNCHANGED <<links, linksSet, visits>>

\* a request is past the lookup of link id and has a visit still to record
RecordingOn(id) ==
    \E s \in Slots : Recording(s) /\ reqs[s].id = id /\ ~NoId(reqs[s].link)

IsPrefix(a, b) == Len(a) <= Len(b) /\ SubSeq(b, 1, Len(a)) = a

Count(seq, x) == Cardinality({ i \in 1..Len(seq) : seq[i] = x })

SameBag(a, b) ==
    /\ Len(a) = Len(b)
    /\ \A x \in Range(a) \cup Range(b) : Count(a, x) = Count(b, x)

\* C1: once every visit recording on a link has completed, the link's
\* visitCount and the length of its log both equal the number of recordings
\* that completed, however the calls were interleaved (the link having been
\* written by one Create).
C1_NoLostVisit ==
    \A id \in Ids :
        (writes[id] = 1 /\ ~RecordingOn(id)) =>
            /\ VisitCountOf(links[id]) = answered[id]
            /\ Len(visits[id]) = answered[id]

\* Two recordings on one link have completed, and the one that completed last
\* had looked the link up before either increment: the two overlapped.
C1_Witness ==
    /\ last.kind = "redirect"
    /\ last.resp.status = "302"
    /\ VisitCountOf(last.link) = 0
    /\ writes[last.id] = 1
    /\ ~RecordingOn(last.id)
    /\ answered[last.id] = 2
    /\ VisitCountOf(links[last.id]) = 2
    /\ Len(visits[last.id]) = 2

\* C2: in every state of the store, each link's log is as long as its
\* visitCount says.
C2_LogLengthIsCount ==
    \A id \in Ids : Len(visits[id]) = VisitCountOf(links[id])

\* C3: the id a Create generates is the id of no link already in the store,
\* so that Create never writes over an existing link record.
C3_FreshId ==
    [][\A id \in Ids : writes'[id] # writes[id] => NoId(links[id])]_vars

\* C4: a redirect request for an id whose Create had returned when the request
\* arrived is answered with the redirect, never passed on as not found.
C4_Resolvable ==
    (last.kind = "redirect" /\ last.created) => last.resp.status = "302"

\* C5: a redirect request for an existing link is answered with the link's
\* originalUrl; visitCount has grown by at least its own 1 since the lookup,
\* its response step appends exactly one entry, carrying the device type of
\* its user agent, to that link's log and leaves every other log and link as
\* it was.
C5_RedirectRecords ==
    [][(last'.kind = "redirect" /\ last'.created) =>
          /\ last'.resp.status = "302"
          /\ last'.resp.location = Field(links[last'.id], "originalUrl")
          /\ VisitCountOf(links'[last'.id]) >= VisitCountOf(last'.link) + 1
          /\ Len(visits'[last'.id]) = Len(visits[last'.id]) + 1
          /\ IsPrefix(visits[last'.id], visits'[last'.id])
          /\ LET e == visits'[last'.id][Len(visits'[last'.id])]
             IN  /\ Parses(e)
                 /\ JSONparse(e).deviceType = detectDeviceType(last'.userAgent)
          /\ \A id \in Ids \ {last'.id} :
                 visits'[id] = visits[id] /\ links'[id] = links[id]]_vars

\* the lookup found no hash under the key
Unresolved(h) == DOMAIN h = {}

\* C6: a redirect request whose id does not resolve is passed on (next) and
\* none of its steps changes a link, a log or the index.
C6_NotFoundNoEffect ==
    [][/\ \A s \in Slots :
             (reqs[s].kind = "idle" /\ reqs'[s].kind = "redirect"
                  /\ Unresolved(reqs'[s].link)) => StoreUnchanged
       /\ \A s \in Slots :
             (reqs[s].kind = "redirect" /\ reqs[s].pc = "gotLink"
                  /\ Unresolved(reqs[s].link) /\ reqs'[s] # reqs[s]) =>
                 /\ last'.kind = "redirect"
                 /\ last'.resp.status = "next"
                 /\ StoreUnchanged
       /\ (last'.kind = "redirect" /\ last'.resp.status = "next") => StoreUnchanged
      ]_vars

\* A request for an id that no link has was passed on while the store held a
\* link with a recorded visit.
C6_Witness ==
    /\ last.kind = "redirect"
    /\ last.resp.status = "next"
    /\ last.id \notin ApiPaths
    /\ Unresolved(last.link)
    /\ \E id \in Ids : Len(visits[id]) > 0

\* the inputs the claim names: a disallowed scheme, text that is no URL, no url
InvalidInputs ==
    { <<"f","t","p",":","/","/","a">>, <<"a",".","b">>,
      <<"u","n","d","e","f","i","n","e","d">> }

\* C7: Create with an invalid input answers 400 and changes nothing in the
\* store: no request with such an input gets to write, and no link holds one.
C7_InvalidUrlRefused ==
    [][/\ (last'.kind = "create" /\ last'.url \in InvalidInputs) =>
              last'.resp.status = "400" /\ StoreUnchanged
       /\ (last'.kind = "create" /\ last'.resp.status = "400") => StoreUnchanged
       /\ \A s \in Slots :
              reqs'[s].kind = "create" => reqs'[s].url \notin InvalidInputs
       /\ \A id \in Ids :
              Field(links'[id], "originalUrl") \notin InvalidInputs
      ]_vars

\* An ftp URL was refused while the store held a link.
C7_Witness ==
    /\ last.kind = "create"
    /\ last.resp.status = "400"
    /\ last.url = <<"f","t","p",":","/","/","a">>
    /\ linksSet # {}

\* C8: once a link record exists, no step changes its id, originalUrl,
\* createdAt or shortUrl, and none lowers its visitCount.
C8_LinkImmutable ==
    [][\A id \in Ids :
          ~NoId(links[id]) =>
              /\ Field(links'[id], "id") = Field(links[id], "id")
              /\ Field(links'[id], "originalUrl") = Field(links[id], "originalUrl")
              /\ Field(links'[id], "createdAt") = Field(links[id], "createdAt")
              /\ Field(links'[id], "shortUrl") = Field(links[id], "shortUrl")
              /\ VisitCountOf(links'[id]) >= VisitCountOf(links[id])]_vars

\* C9: in every step, each link's log before the step is a prefix of its log
\* after the step.
C9_AppendOnly ==
    [][\A id \in Ids : IsPrefix(visits[id], visits'[id])]_vars

\* A log holds two entries recorded for different user agents.
C9_Witness ==
    \E id \in Ids :
        /\ Len(visits[id]) = 2
        /\ visits[id][1] # visits[id][2]

\* the first instant of calendar day 2024-01-DD
StartOfDay(day) == Jan(day, 0, 0)

\* the visits the claim says a stats query returns
Selected(log, qstart, qend) ==
    LET wellFormed == SelectSeq(log, LAMBDA e : e.wellFormed)
        stored     == [i \in 1..Len(wellFormed) |-> wellFormed[i].value]
        ts(v)      == v.timestamp.date * DayMs + v.timestamp.time
    IN  SelectSeq(stored, LAMBDA v :
            /\ (qstart.k = "absent" \/ ts(v) >= StartOfDay(qstart.day))
            /\ (qend.k = "absent" \/ ts(v) <= StartOfDay(qend.day) + DayMs))

IsDateOrAbsent(q) == q.k \in {"absent", "date"}

\* C10: a stats query with calendar dates (or none) for start and end returns
\* exactly the well-formed visits of the log it read whose timestamp is at or
\* after the start of the start day and at or before the start of the day
\* after the end day, each bound applying on its own.
C10_StatsRange ==
    (/\ last.kind = "stats"
     /\ last.resp.status = "200"
     /\ IsDateOrAbsent(last.start)
     /\ IsDateOrAbsent(last.end)) =>
        SameBag(last.resp.body.visits,
                Selected(last.resp.log, last.start, last.end))

\* The example: visits on Jan 1 10:00, Jan 5 23:59 and Jan 10 00:01, queried
\* with start Jan 2 and end Jan 5, give the second visit alone.
C10_Witness ==
    /\ last.kind = "stats"
    /\ last.resp.status = "200"
    /\ last.start = DateParam(2)
    /\ last.end = DateParam(5)
    /\ last.resp.log = << StoredVisit(Jan(1, 10, 0)), StoredVisit(Jan(5, 23, 59)),
                          StoredVisit(Jan(10, 0, 1)) >>
    /\ last.resp.body.visits = << Visit(StatsUserAgent, Jan(5, 23, 59)) >>

\* C11: a stats query with an end date returns no visit whose timestamp is at
\* or after the first instant of the day following the end date.
C11_EndExclusive ==
    (/\ last.kind = "stats"
     /\ last.resp.status = "200"
     /\ last.end.k = "date") =>
        \A i \in 1..Len(last.resp.body.visits) :
            VisitTime(last.resp.body.visits[i]) < StartOfDay(last.end.day + 1)

\* C12: the visits a stats query returns are in descending order of timestamp,
\* whatever the order of the entries in the log it read.
C12_NewestFirst ==
    (last.kind = "stats" /\ last.resp.status = "200") =>
        \A i, j \in 1..Len(last.resp.body.visits) :
            i < j => VisitTime(last.resp.body.visits[i])
                         >= VisitTime(last.resp.body.visits[j])

\* A log stored oldest-first, with three different instants, was returned
\* newest-first.
C12_Witness ==
    /\ last.kind = "stats"
    /\ last.resp.status = "200"
    /\ last.resp.log = << StoredVisit(Jan(1, 10, 0)), StoredVisit(Jan(2, 0, 0)),
                          StoredVisit(Jan(5, 23, 59)) >>
    /\ last.resp.body.visits = << Visit(StatsUserAgent, Jan(5, 23, 59)),
                                  Visit(StatsUserAgent, Jan(2, 0, 0)),
                                  Visit(StatsUserAgent, Jan(1, 10, 0)) >>

\* C13: the visitCount of a stats response is the counter stored in the link
\* record, whatever start and end are and however many visits are returned.
C13_CountUnfiltered ==
    (last.kind = "stats" /\ last.resp.status = "200") =>
        /\ Has(links[last.id], "visitCount")
        /\ last.resp.body.visitCount = links[last.id]["visitCount"]

\* A query whose bounds let no visit through answered with the stored count
\* of three.
C13_Witness ==
    /\ last.kind = "stats"
    /\ last.resp.status = "200"
    /\ last.start = DateParam(5)
    /\ last.end = DateParam(2)
    /\ Len(last.resp.log) = 3
    /\ last.resp.body.visits = << >>
    /\ last.resp.body.visitCount = 3

\* C14: no step of a list request or of a stats request changes a link
\* record, a visit log or the index, whether the id exists or not and whatever
\* start and end are; a stats request whose id has no link is answered 404.
C14_ReadOnly ==
    [][/\ \A s \in Slots :
             (reqs[s].kind = "idle" /\ reqs'[s].kind \in {"list", "stats"})
                 => StoreUnchanged
       /\ \A s \in Slots :
             (reqs[s].kind \in {"list", "stats"} /\ reqs'[s] # reqs[s])
                 => StoreUnchanged /\ last'.kind = reqs[s].kind
       /\ last'.kind \in {"list", "stats"} => StoreUnchanged
       /\ last'.kind = "stats" =>
              (last'.resp.status = "404" <=> Unresolved(last'.link))
      ]_vars

\* A stats request with an end date, for an id no link has, was answered 404
\* while the store held a link with a recorded visit.
C14_Witness ==
    /\ last.kind = "stats"
    /\ last.resp.status = "404"
    /\ last.end = DateParam(5)
    /\ Unresolved(last.link)
    /\ \E id \in Ids : Len(visits[id]) > 0

\* position of an id in the order of creation
CreatedAs(id) == CHOOSE i \in 1..Len(CreatedOrder) : CreatedOrder[i] = id

\* C15: a list response holds every link whose Create has completed exactly
\* once, in descending order of createdAt, links of equal createdAt in the
\* order of their creation; with no link it is the empty sequence.
C15_ListOrder ==
    (last.kind = "list" /\ last.resp.status = "200") =>
        LET body == last.resp.body
        IN  /\ { body[i].id : i \in 1..Len(body) } = linksSet
            /\ Len(body) = Cardinality(linksSet)
            /\ \A i, j \in 1..Len(body) :
                   i < j =>
                      \/ CreatedTime(body[i]) > CreatedTime(body[j])
                      \/ /\ CreatedTime(body[i]) = CreatedTime(body[j])
                         /\ CreatedAs(body[i].id) < CreatedAs(body[j].id)

\* C16: a request one of whose storage commands is rejected ends with a
\* server error sent to the caller: the step in which the command fails, or
\* the request's last step after it, answers 500, and the request is gone.
C16_FailureSurfaced ==
    [][/\ failures' > failures =>
              \/ last'.kind # "idle" /\ last'.resp.status = "500"
              \/ \E s \in Slots :
                     reqs'[s].pc = "rPushAfterFail" /\ reqs'[s] # reqs[s]
       /\ \A s \in Slots :
              (reqs[s].pc = "rPushAfterFail" /\ reqs'[s] # reqs[s]) =>
                  /\ last'.resp.status = "500"
                  /\ reqs'[s] = Idle
      ]_vars

\* no redirect request is being served
NoRecordVisit == \A s \in Slots : reqs[s].kind # "redirect"

\* C19: with no storage failure, a recording that has passed its existence
\* check goes on until both its writes are applied and it has left, and
\* whenever no recording is in flight each link's visitCount is the length of
\* its log.
C19_EventuallyConsistent ==
    /\ \A s \in Slots :
           (Recording(s) /\ ~NoId(reqs[s].link)) ~> ~Recording(s)
    /\ [](NoRecordVisit =>
             \A id \in Ids : VisitCountOf(links[id]) = Len(visits[id]))

\* C20: a recording that passed its existence check and did not end in the
\* redirect has left the link's visitCount and log as they were: with the link
\* written once and no other recording in flight, both still equal the number
\* of recordings that were answered.
C20_AllOrNothing ==
    (/\ last.kind = "redirect"
     /\ last.id \notin ApiPaths
     /\ ~NoId(last.link)
     /\ last.resp.status # "302"
     /\ writes[last.id] = 1
     /\ ~RecordingOn(last.id)) =>
        /\ VisitCountOf(links[last.id]) = answered[last.id]
        /\ Len(visits[last.id]) = answered[last.id]

\* how many entries of log parse to visit v
Stored(log, v) ==
    Cardinality({ i \in 1..Len(log) : log[i].wellFormed /\ log[i].value = v })

\* visit v lies in the range a query with these parameters selects
Passes(v, qstart, qend) ==
    LET ts == v.timestamp.date * DayMs + v.timestamp.time
    IN  /\ (qstart.k = "date" => ts >= StartOfDay(qstart.day))
        /\ (qend.k = "date" => ts <= StartOfDay(qend.day + 1))

\* C17: a stats query on an existing link succeeds whatever corrupt entries
\* its log holds, and returns each well-formed visit in the range as often as
\* the log holds it, and nothing else, wherever the corrupt entries are.
C17_CorruptSkipped ==
    (/\ last.kind = "stats"
     /\ ~Unresolved(last.link)
     /\ IsDateOrAbsent(last.start)
     /\ IsDateOrAbsent(last.end)) =>
        /\ last.resp.status = "200"
        /\ \A t \in StatsInstants :
               LET v == Visit(StatsUserAgent, t)
               IN  Count(last.resp.body.visits, v) =
                       (IF Passes(v, last.start, last.end)
                        THEN Stored(last.resp.log, v) ELSE 0)
        /\ \A i \in 1..Len(last.resp.body.visits) :
               \E t \in StatsInstants :
                   last.resp.body.visits[i] = Visit(StatsUserAgent, t)

\* A log with a corrupt entry before and after a visit of Jan 5 was read and
\* the visit was returned.
C17_Witness ==
    /\ last.kind = "stats"
    /\ last.resp.status = "200"
    /\ last.start = DateParam(2)
    /\ last.end = DateParam(5)
    /\ last.resp.log = << Corrupted(StoredVisit(Jan(5, 23, 59))),
                          StoredVisit(Jan(5, 23, 59)),
                          Corrupted(StoredVisit(Jan(5, 23, 59))) >>
    /\ last.resp.body.visits = << Visit(StatsUserAgent, Jan(5, 23, 59)) >>

\* the tokens the claim names
ClaimTokens == { <<"m","o","b","i","l","e">>, <<"a","n","d","r","o","i","d">>,
                 <<"i","p","h","o","n","e">>, <<"i","p","a","d">>,
                 <<"i","p","o","d">> }

\* the same character, or the two cases of one letter
SameLetter(a, b) ==
    a = b \/ \E i \in 1..Len(Upper) : {a, b} = {Upper[i], Lower[i]}

\* the user agent holds one of the tokens, in any mix of cases
NamesMobile(ua) ==
    \E tok \in ClaimTokens, i \in 1..Len(ua) :
        /\ i + Len(tok) - 1 <= Len(ua)
        /\ \A k \in 1..Len(tok) : SameLetter(ua[i + k - 1], tok[k])

\* C18: every recorded visit has device type mobile if its user agent holds
\* one of the tokens mobile, android, iphone, ipad, ipod in any mix of cases,
\* and desktop otherwise, the empty user agent included.
C18_Classifier ==
    \A id \in PathIds :
        \A i \in 1..Len(visits[id]) :
            LET v == visits[id][i].value
            IN  v.deviceType =
                    (IF NamesMobile(v.userAgent) THEN "mobile" ELSE "desktop")

\* A redirect with user agent MOBILE-X was recorded as mobile after one with
\* no user agent was recorded as desktop.
C18_Witness ==
    /\ Len(visits[StatsId]) = 2
    /\ visits[StatsId][1].value.userAgent = << >>
    /\ visits[StatsId][1].value.deviceType = "desktop"
    /\ visits[StatsId][2].value.userAgent = <<"M","O","B","I","L","E","-","X">>
    /\ visits[StatsId][2].value.deviceType = "mobile"

\* C21: in every state of the store each id of the index has a link record
\* with a non-empty id field, also while a Create is between writing its
\* record and indexing it; so a list response holds one link for each id that
\* SMEMBERS gave it.
C21_IndexedHasRecord ==
    /\ \A id \in linksSet :
           /\ Has(links[id], "id")
           /\ links[id]["id"] # << >>
    /\ (last.kind = "list" /\ last.resp.status = "200") =>
           Len(last.resp.body) = Len(last.ids)

\* A Create has written its record and not yet indexed it while a list
\* request holds the ids of a non-empty index and has not read the records.
C21_Witness ==
    \E s, t \in Slots :
        /\ reqs[s].kind = "create" /\ reqs[s].pc = "sAdd"
        /\ reqs[s].id \notin linksSet
        /\ ~NoId(links[reqs[s].id])
        /\ reqs[t].kind = "list" /\ reqs[t].pc = "hGetAll"
        /\ reqs[t].ids # << >>

============================================================================
